---- MODULE Spec2Model ----
(***************************************************************************)
(* The link-reading pipeline of the Link Reader plugin (src/main.py):      *)
(* on_llm_request takes the first URL of a message, _fetch_url_content     *)
(* routes it to the direct lyric API, the headless render or the plain     *)
(* HTTP fetch, and the resulting text (and screenshot) is injected into    *)
(* the prompt.                                                             *)
(*                                                                         *)
(* A Python str is a sequence of characters.  A character is a             *)
(* one-character string; a character outside ASCII is written "uXXXX",     *)
(* its code point.  Network peers (lyric APIs, pages, the search site, the *)
(* browser) are the environment: every response is chosen from a small set *)
(* of samples.                                                             *)
(***************************************************************************)
EXTENDS Integers, Sequences, FiniteSets, TLC

\* ------------------------------------------------------------------ bounds

\* general_config["max_content_length"] (2000 by default), scaled down
max_length == 20
\* how many messages on_llm_request handles in one behaviour
MaxCalls == 2

\* ------------------------------------------------------ str primitives

\* Python's None: a value that equals no str
None == <<"<None>">>

Digits == {"0", "1", "2", "3", "4", "5", "6", "7", "8", "9"}
HexLower == Digits \cup {"a", "b", "c", "d", "e", "f"}
Lowers == {"a", "b", "c", "d", "e", "f", "g", "h", "i", "j", "k", "l", "m",
           "n", "o", "p", "q", "r", "s", "t", "u", "v", "w", "x", "y", "z"}
Uppers == {"A", "B", "C", "D", "E", "F", "G", "H", "I", "J", "K", "L", "M",
           "N", "O", "P", "Q", "R", "S", "T", "U", "V", "W", "X", "Y", "Z"}
Alnum == Digits \cup Lowers \cup Uppers
Whitespace == {" ", "\n", "\t", "\r"}
\* the characters of the samples that lie in U+4E00..U+9FFF
CJK == 
    {"u4E0B", "u4E16", "u4E50", "u4E91", "u4EE5", "u4F46", "u4F53", "u4F5C",
     "u4F60", "u5168", "u516C", "u5177", "u5185", "u51FA", "u522B", "u5230",
     "u529F", "u53C2", "u53D6", "u53EF", "u56DE", "u56FE", "u5907", "u5927",
     "u5929", "u5931", "u597D", "u5B89", "u5BB9", "u5C0F", "u5DF2", "u5E26",
     "u5F00", "u6210", "u6211", "u622A", "u6240", "u6253", "u6355", "u63A5",
     "u6587", "u65AD", "u6613", "u662F", "u6674", "u66F2", "u6709", "u672A",
     "u6743", "u6765", "u6790", "u6B4C", "u6B63", "u6C5F", "u6CAA", "u6E90",
     "u7247", "u7248", "u72D7", "u7532", "u754C", "u7684", "u77E5", "u7B54",
     "u7ECF", "u7F51", "u7FFB", "u8003", "u80FD", "u83B7", "u8425", "u884C",
     "u89C6", "u89C9", "u89E3", "u8BB8", "u8BC1", "u8BC6", "u8BCD", "u8BD1",
     "u8BE5", "u8BF7", "u8D25", "u8F7D", "u8FC7", "u8FDB", "u9177", "u94FE",
     "u9519", "u957F", "u9644", "u9762", "u97F3", "u9875"}

\* sub in s
Contains(s, sub) ==
    \E i \in 1..(Len(s) - Len(sub) + 1) : SubSeq(s, i, i + Len(sub) - 1) = sub

StartsWith(s, pre) == Len(pre) <= Len(s) /\ SubSeq(s, 1, Len(pre)) = pre

\* the least index where sub starts in s, 0 when there is none
Find(s, sub) ==
    IF Contains(s, sub)
    THEN CHOOSE i \in 1..(Len(s) - Len(sub) + 1) :
            /\ SubSeq(s, i, i + Len(sub) - 1) = sub
            /\ \A j \in 1..(i - 1) : SubSeq(s, j, j + Len(sub) - 1) # sub
    ELSE 0

RECURSIVE ReplaceFrom(_, _, _, _)
ReplaceFrom(s, old, new, i) ==
    IF i > Len(s) THEN <<>>
    ELSE IF i + Len(old) - 1 <= Len(s) /\ SubSeq(s, i, i + Len(old) - 1) = old
         THEN new \o ReplaceFrom(s, old, new, i + Len(old))
         ELSE <<s[i]>> \o ReplaceFrom(s, old, new, i + 1)

\* s.replace(old, new), old not empty
Replace(s, old, new) == ReplaceFrom(s, old, new, 1)

RECURSIVE SplitFrom(_, _, _, _)
SplitFrom(s, sep, i, cur) ==
    IF i > Len(s) THEN <<cur>>
    ELSE IF s[i] = sep THEN <<cur>> \o SplitFrom(s, sep, i + 1, <<>>)
         ELSE SplitFrom(s, sep, i + 1, Append(cur, s[i]))

\* s.split(sep), sep one character
Split(s, sep) == SplitFrom(s, sep, 1, <<>>)

RECURSIVE LStrip(_)
LStrip(s) == IF s # <<>> /\ Head(s) \in Whitespace THEN LStrip(Tail(s)) ELSE s

RECURSIVE RStrip(_)
RStrip(s) ==
    IF s # <<>> /\ s[Len(s)] \in Whitespace
    THEN RStrip(SubSeq(s, 1, Len(s) - 1)) ELSE s

\* s.strip()
Strip(s) == RStrip(LStrip(s))

RECURSIVE Join(_, _)
\* sep.join(lines)
Join(lines, sep) ==
    IF lines = <<>> THEN <<>>
    ELSE IF Len(lines) = 1 THEN lines[1]
         ELSE lines[1] \o sep \o Join(Tail(lines), sep)

\* [f(x) for x in lines]
StripAll(lines) == [k \in 1..Len(lines) |-> Strip(lines[k])]

\* s.isdigit()
IsDigitStr(s) == s # <<>> /\ \A k \in 1..Len(s) : s[k] \in Digits

RECURSIVE DigitsEnd(_, _)
\* the index after the run of digits that starts at i
DigitsEnd(s, i) ==
    IF i <= Len(s) /\ s[i] \in Digits THEN DigitsEnd(s, i + 1) ELSE i

\* the regex \[\d+:\d+\.\d+\] matched at index i: the index after the
\* match, 0 when it does not match there
TimeTagEnd(s, i) ==
    IF i > Len(s) \/ s[i] # "[" THEN 0
    ELSE LET a == DigitsEnd(s, i + 1) IN
         IF a = i + 1 \/ a > Len(s) \/ s[a] # ":" THEN 0
         ELSE LET b == DigitsEnd(s, a + 1) IN
              IF b = a + 1 \/ b > Len(s) \/ s[b] # "." THEN 0
              ELSE LET c == DigitsEnd(s, b + 1) IN
                   IF c = b + 1 \/ c > Len(s) \/ s[c] # "]" THEN 0
                   ELSE c + 1

RECURSIVE SubTimeTagsFrom(_, _)
SubTimeTagsFrom(s, i) ==
    IF i > Len(s) THEN <<>>
    ELSE IF TimeTagEnd(s, i) # 0 THEN SubTimeTagsFrom(s, TimeTagEnd(s, i))
         ELSE <<s[i]>> \o SubTimeTagsFrom(s, i + 1)

\* re.sub(r'\[\d+:\d+\.\d+\]', '', s): one pass, left to right
SubTimeTags(s) == SubTimeTagsFrom(s, 1)

\* a raw timestamp tag [mm:ss.xx] occurs in s
HasTimeTag(s) == \E i \in 1..Len(s) : TimeTagEnd(s, i) # 0

\* ------------------------------------------------------------ cleaners

_contains_chinese(text) == \E k \in 1..Len(text) : text[k] \in CJK

\* "lyrics", Lyric, LRC
LyricKeywords ==
    { <<"u6B4C", "u8BCD">>,
      <<"L", "y", "r", "i", "c">>,
      <<"L", "R", "C">> }

\* one line of the loop of _filter_lyrics: the lines it appends
FilterLyricLine(raw) ==
    LET stripped == Strip(raw) IN
    IF stripped = <<>> THEN <<>>
    ELSE LET line == Strip(SubTimeTags(stripped))
             parts == SelectSeq(StripAll(Split(line, " ")), LAMBDA p : p # <<>>)
         IN  IF line = <<>> \/ (Head(line) = "[" /\ line[Len(line)] = "]")
             THEN <<>>
             ELSE IF /\ \/ (Contains(line, <<":">>) \/ Contains(line, <<"uFF1A">>))
                              /\ Len(line) < 30
                        \/ Contains(line, <<" ", "-", " ">>)
                     /\ ~ \E kw \in LyricKeywords : Contains(line, kw)
             THEN <<>>
             ELSE IF /\ Contains(line, <<" ">>)
                     /\ _contains_chinese(line)
                     /\ \A k \in 1..Len(parts) : Len(parts[k]) < 20
             THEN parts
             ELSE <<line>>

RECURSIVE FilterLyricLines(_)
FilterLyricLines(lines) ==
    IF lines = <<>> THEN <<>>
    ELSE FilterLyricLine(Head(lines)) \o FilterLyricLines(Tail(lines))

_filter_lyrics(lyrics) ==
    IF lyrics = <<>> THEN <<>>
    ELSE LET unescaped ==
                 Replace(Replace(lyrics, <<"\\", "n">>, <<"\n">>),
                         <<"\\", "r">>, <<>>)
             filtered_lines == FilterLyricLines(Split(unescaped, "\n"))
             final_lines == SelectSeq(filtered_lines,
                                LAMBDA l : Len(l) > 1 /\ ~IsDigitStr(l))
         IN  Join(final_lines, <<"\n">>)

\* ICP and police registration notices, licence, "all rights reserved",
\* the copyright sign, Copyright, "download the app", "open the app"
blacklist ==
    { <<"u6CAA", "I", "C", "P", "u5907">>,
      <<"u516C", "u7F51", "u5B89", "u5907">>,
      <<"u7ECF", "u8425", "u8BB8", "u53EF", "u8BC1">>,
      <<"u7248", "u6743", "u6240", "u6709">>,
      <<"u00A9">>,
      <<"C", "o", "p", "y", "r", "i", "g", "h", "t">>,
      <<"u4E0B", "u8F7D", "A", "P", "P">>,
      <<"u6253", "u5F00", "A", "P", "P">> }

\* "...(content too long, truncated)"
TruncationMarker == <<".", ".", ".", "(", "u5185", "u5BB9", "u8FC7", "u957F",
                      "u5DF2", "u622A", "u65AD", ")">>

_clean_text(text) ==
    LET cleaned_lines ==
            SelectSeq(StripAll(Split(text, "\n")),
                      LAMBDA line : ~ (\/ line = <<>>
                                       \/ Len(line) < 2
                                       \/ \E kw \in blacklist : Contains(line, kw)))
        result == Join(cleaned_lines, <<"\n">>)
    IN  IF Len(result) > max_length
        THEN SubSeq(result, 1, max_length) \o TruncationMarker
        ELSE result

\* ------------------------------------------------------------- URLs

UpperSeq == <<"A", "B", "C", "D", "E", "F", "G", "H", "I", "J", "K", "L", "M",
              "N", "O", "P", "Q", "R", "S", "T", "U", "V", "W", "X", "Y", "Z">>
LowerSeq == <<"a", "b", "c", "d", "e", "f", "g", "h", "i", "j", "k", "l", "m",
              "n", "o", "p", "q", "r", "s", "t", "u", "v", "w", "x", "y", "z">>

\* s.lower()
Lower(s) ==
    [k \in 1..Len(s) |->
        IF s[k] \in Uppers THEN LowerSeq[Find(UpperSeq, <<s[k]>>)] ELSE s[k]]

RECURSIVE NetlocEnd(_, _)
\* the index after the authority that starts at i: it ends at the first / ? #
NetlocEnd(s, i) ==
    IF i <= Len(s) /\ s[i] \notin {"/", "?", "#"} THEN NetlocEnd(s, i + 1) ELSE i

\* urlparse(url).netloc
Netloc(u) ==
    LET k == Find(u, <<":", "/", "/">>) IN
    IF k = 0 THEN <<>> ELSE SubSeq(u, k + 3, NetlocEnd(u, k + 3) - 1)

\* urlparse raises ValueError("Invalid IPv6 URL"): one bracket of the netloc
\* lacks the other
UrlparseRaises(u) ==
    Contains(Netloc(u), <<"[">>) # Contains(Netloc(u), <<"]">>)

music_domains ==
    { <<"m", "u", "s", "i", "c", ".", "1", "6", "3", ".", "c", "o", "m">>,
      <<"y", ".", "q", "q", ".", "c", "o", "m">>,
      <<"k", "u", "g", "o", "u", ".", "c", "o", "m">>,
      <<"k", "u", "w", "o", ".", "c", "n">>,
      <<"1", "6", "3", "c", "n", ".", "t", "v">>,
      <<"u", "r", "l", ".", "c", "n">>,
      <<"1", "6", "3", ".", "f", "m">> }

_is_music_site(u) == \E domain \in music_domains : Contains(u, domain)

short_link_domains ==
    { <<"1", "6", "3", "c", "n", ".", "t", "v">>,
      <<"u", "r", "l", ".", "c", "n">>,
      <<"1", "6", "3", ".", "f", "m">> }

social_platforms ==
    { <<"x", "i", "a", "o", "h", "o", "n", "g", "s", "h", "u", ".", "c", "o",
        "m">>,
      <<"z", "h", "i", "h", "u", ".", "c", "o", "m">>,
      <<"w", "e", "i", "b", "o", ".", "c", "o", "m">>,
      <<"b", "i", "l", "i", "b", "i", "l", "i", ".", "c", "o", "m">>,
      <<"d", "o", "u", "y", "i", "n", ".", "c", "o", "m">>,
      <<"l", "o", "f", "t", "e", "r", ".", "c", "o", "m">> }

\* any(sp in domain for sp in social_platforms)
IsSocialDomain(domain) == \E sp \in social_platforms : Contains(domain, sp)

\* the branch of _fetch_url_content a URL belongs to by its domains: the
\* music test reads the whole URL and comes first, the social test reads
\* the netloc
Category(u) ==
    IF _is_music_site(u) THEN "Music"
    ELSE IF IsSocialDomain(Netloc(u)) THEN "SocialScreenshot"
    ELSE "Generic"

\* a slip: the social test reads the whole URL, as the music test does
Route_SocialAnywhere(u, has_playwright) ==
    IF _is_music_site(u) THEN "music"
    ELSE IF IsSocialDomain(u) /\ has_playwright THEN "render"
    ELSE "plain"

\* the strategy _fetch_url_content starts with (lines 275, 281 and 294)
Route(u, has_playwright) ==
    IF _is_music_site(u) THEN "music"
    ELSE IF IsSocialDomain(Netloc(u)) /\ has_playwright THEN "render"
    ELSE "plain"

\* re.search(prefix + '(' + class + '{n,})', s) finds a match
SearchAfter(s, prefix, class, n) ==
    \E i \in 1..Len(s) :
        /\ i + Len(prefix) + n - 1 <= Len(s)
        /\ SubSeq(s, i, i + Len(prefix) - 1) = prefix
        /\ \A k \in 0..(n - 1) : s[i + Len(prefix) + k] \in class

\* which adapter of _handle_music_direct_api takes final_url
Platform(final_url) ==
    IF Contains(final_url, <<"m", "u", "s", "i", "c", ".", "1", "6", "3", ".",
                             "c", "o", "m">>) THEN "netease"
    ELSE IF Contains(final_url, <<"y", ".", "q", "q", ".", "c", "o", "m">>) THEN "qq"
    ELSE IF Contains(final_url, <<"k", "u", "w", "o", ".", "c", "n">>) THEN "kuwo"
    ELSE IF Contains(final_url,
                     <<"k", "u", "g", "o", "u", ".", "c", "o", "m">>) THEN "kugou"
    ELSE "none"

\* the adapter's regex finds a track identifier in final_url
TrackIdFound(final_url) ==
    CASE Platform(final_url) = "netease" ->
            \/ SearchAfter(final_url, <<"i", "d", "=">>, Digits, 1)
            \/ SearchAfter(final_url, <<"s", "o", "n", "g", "/">>, Digits, 1)
      [] Platform(final_url) = "qq" ->
            \/ SearchAfter(final_url, <<"s", "o", "n", "g", "m", "i", "d", "=">>, Alnum, 1)
            \/ SearchAfter(final_url, <<"s", "o", "n", "g", "D", "e", "t",
                                        "a", "i", "l", "/">>, Alnum, 1)
      [] Platform(final_url) = "kuwo" ->
            \/ SearchAfter(final_url, <<"m", "i", "d", "=">>, Digits, 1)
            \/ SearchAfter(final_url, <<"m", "u", "s", "i", "c", "I", "d", "=">>, Digits, 1)
      [] Platform(final_url) = "kugou" ->
            SearchAfter(Lower(final_url), <<"h", "a", "s", "h", "=">>, HexLower, 32)
      [] OTHER -> FALSE

\* --------------------------------------------------- the environment
\* State variables hold the name of a sample; the tables give its content.

\* the first URL of a message, as url_pattern.findall gives it
UrlText ==
    [ netease |-> <<"h", "t", "t", "p", "s", ":", "/", "/", "m", "u", "s",
                    "i", "c", ".", "1", "6", "3", ".", "c", "o", "m", "/",
                    "s", "o", "n", "g", "?", "i", "d", "=", "1", "2", "3", "4">>,
      netease_noid |-> <<"h", "t", "t", "p", "s", ":", "/", "/", "m", "u",
                         "s", "i", "c", ".", "1", "6", "3", ".", "c", "o",
                         "m", "/">>,
      qq |-> <<"h", "t", "t", "p", "s", ":", "/", "/", "y", ".", "q", "q",
               ".", "c", "o", "m", "/", "n", "/", "r", "y", "q", "q", "/",
               "s", "o", "n", "g", "D", "e", "t", "a", "i", "l", "/", "0",
               "a", "1", "B">>,
      kuwo |-> <<"h", "t", "t", "p", ":", "/", "/", "m", ".", "k", "u", "w",
                 "o", ".", "c", "n", "/", "?", "m", "i", "d", "=", "7">>,
      kugou |-> <<"h", "t", "t", "p", "s", ":", "/", "/", "w", "w", "w", ".",
                  "k", "u", "g", "o", "u", ".", "c", "o", "m", "/", "s", "o",
                  "n", "g", "/", "?", "h", "a", "s", "h", "=", "0", "1", "2",
                  "3", "4", "5", "6", "7", "8", "9", "A", "B", "C", "D", "E",
                  "F", "0", "1", "2", "3", "4", "5", "6", "7", "8", "9", "a",
                  "b", "c", "d", "e", "f">>,
      short |-> <<"h", "t", "t", "p", "s", ":", "/", "/", "1", "6", "3", "c",
                  "n", ".", "t", "v", "/", "A", "b", "1">>,
      weibo |-> <<"h", "t", "t", "p", "s", ":", "/", "/", "w", "e", "i", "b",
                  "o", ".", "c", "o", "m", "/", "1", "/", "a">>,
      xhs |-> <<"h", "t", "t", "p", "s", ":", "/", "/", "w", "w", "w", ".",
                "x", "i", "a", "o", "h", "o", "n", "g", "s", "h", "u", ".",
                "c", "o", "m", "/", "e", "x", "p", "l", "o", "r", "e", "/",
                "9">>,
      generic |-> <<"h", "t", "t", "p", "s", ":", "/", "/", "e", "x", "a",
                    "m", "p", "l", "e", ".", "c", "o", "m", "/">>,
      generic_music_query |-> <<"h", "t", "t", "p", "s", ":", "/", "/", "e",
                                "x", "a", "m", "p", "l", "e", ".", "c", "o",
                                "m", "/", "?", "r", "e", "f", "=", "m", "u",
                                "s", "i", "c", ".", "1", "6", "3", ".", "c",
                                "o", "m">>,
      generic_social_query |-> <<"h", "t", "t", "p", "s", ":", "/", "/", "e",
                                 "x", "a", "m", "p", "l", "e", ".", "c", "o",
                                 "m", "/", "?", "r", "e", "f", "=", "w", "e",
                                 "i", "b", "o", ".", "c", "o", "m">>,
      weibo_music_query |-> <<"h", "t", "t", "p", "s", ":", "/", "/", "w",
                              "e", "i", "b", "o", ".", "c", "o", "m", "/",
                              "?", "r", "e", "f", "=", "k", "u", "g", "o",
                              "u", ".", "c", "o", "m">>,
      bracket |-> <<"h", "t", "t", "p", ":", "/", "/", "[", "e", "x", "a",
                    "m", "p", "l", "e", ".", "c", "o", "m", "/">> ]

\* url_pattern admits no bracket
Urls == DOMAIN UrlText \ {"bracket"}

\* the argument of the link_debug command: any text
DebugUrls == {"generic", "bracket"}

\* where the HEAD request of a short link ends (str(resp.url)); "raise":
\* the request raises
HeadOutcomes == {"raise", "netease", "generic"}

LyricPlain == <<"[", "0", "0", ":", "0", "1", ".", "0", "0", "]", "H", "e",
                "l", "l", "o", "\n", "[", "0", "0", ":", "0", "2", ".", "0",
                "0", "]", "W", "o", "r", "l", "d">>
\* a tag line, a credit line, a two-column line of Chinese text
LyricChinese == <<"[", "t", "i", ":", "x", "]", "\n", "[", "0", "0", ":", "0",
                  "1", ".", "0", "0", "]", "u4F5C", "u8BCD", " ", ":", " ",
                  "u7532", "\n", "[", "0", "0", ":", "0", "2", ".", "0", "0",
                  "]", "u4F60", "u597D", " ", "u4E16", "u754C">>
LyricLong == <<"[", "0", "0", ":", "0", "1", ".", "0", "0", "]", "l", "a",
               " ", "l", "a", " ", "l", "a", " ", "l", "a", " ", "l", "a",
               " ", "l", "a", " ", "l", "a", " ", "l", "a", " ", "l", "a",
               " ", "l", "a", " ", "l", "a", " ", "l", "a">>
\* a tag inside a tag
LyricNested == <<"a", "[", "0", ":", "0", "[", "0", ":", "0", ".", "0", "]",
                 ".", "0", "]", "b", " ", "L", "y", "r", "i", "c">>
LyricTagOnly == <<"[", "0", "0", ":", "0", "1", ".", "0", "0", "]">>

Response(net, status, json, lyric, tlyric, lrclist) ==
    [net |-> net, status |-> status, json |-> json,
     lyric |-> lyric, tlyric |-> tlyric, lrclist |-> lrclist]

\* what a lyric endpoint answers.  net = "raise": the request raises;
\* json: the body parses.  The adapters read different fields: lrc.lyric
\* or lyric, tlyric.lyric, and data.lrclist[*].lineLyric
ApiResponse ==
    [ none |-> Response("none", 0, FALSE, <<>>, <<>>, <<>>),
      raise |-> Response("raise", 0, FALSE, <<>>, <<>>, <<>>),
      plain |-> Response("ok", 200, TRUE, LyricPlain, <<>>, <<<<"H", "e", "l", "l", "o">>, <<"W", "o", "r", "l", "d">>>>),
      empty |-> Response("ok", 200, TRUE, <<>>, <<>>, <<>>),
      garbage |-> Response("ok", 200, FALSE, <<>>, <<>>, <<>>),
      error |-> Response("ok", 500, FALSE, <<>>, <<>>, <<>>),
      error_with_lyric |-> Response("ok", 500, TRUE, LyricPlain, <<>>, <<<<"H", "e", "l", "l", "o">>>>),
      chinese |-> Response("ok", 200, TRUE, LyricChinese, <<"[", "0", "0", ":", "0", "1", ".", "0", "0", "]", "u4F60",
              "u597D">>,
                           <<<<"[", "0", "0", ":", "0", "1", ".", "0", "0",
                               "]", "H", "e", "l", "l", "o">>>>),
      long |-> Response("ok", 200, TRUE, LyricLong, <<>>,
                        <<<<"l", "a", " ", "l", "a", " ", "l", "a", " ", "l",
                            "a", " ", "l", "a", " ", "l", "a", " ", "l", "a",
                            " ", "l", "a">>, <<"l", "a", " ", "l", "a", " ", "l", "a", " ", "l", "a", " ", "l",
              "a", " ", "l", "a", " ", "l", "a", " ", "l", "a">>>>),
      nested |-> Response("ok", 200, TRUE, LyricNested, <<>>, <<<<"l", "a">>>>),
      tag_only |-> Response("ok", 200, TRUE, LyricTagOnly, <<>>, <<<<>>>>) ]

ApiResponses == DOMAIN ApiResponse \ {"none"}

\* the title probe of the fallback: the GET raises, the page has no <title>,
\* the <title> has no string, or it has this one
TitleOutcome(kind, title) == [kind |-> kind, title |-> title]

TitleProbe ==
    [ raise |-> TitleOutcome("raise", <<>>),
      notitle |-> TitleOutcome("notitle", <<>>),
      nostring |-> TitleOutcome("nostring", <<>>),
      netease |-> TitleOutcome("title", <<"u6674", "u5929", " ", "-", " ",
                                          "u7F51", "u6613", "u4E91", "u97F3",
                                          "u4E50">>),
      piped |-> TitleOutcome("title", <<" ", "S", "o", "n", "g", "|", "s",
                                        "i", "t", "e", " ">>),
      prefixed |-> TitleOutcome("title", <<"u6B4C", "u66F2", "uFF1A", "u6674", "u5929", " ", "-", " ",
              "u6B4C", "u66F2", "u5927", "u5168">>) ]

TitleOutcomes == DOMAIN TitleProbe

\* the search site: the search GET raises, answers a status other than 200,
\* has no a.song-link, the detail GET raises, or the detail page has this text
SearchOutcome(kind, text) == [kind |-> kind, text |-> text]

SearchResult ==
    [ raise |-> SearchOutcome("raise", <<>>),
      status |-> SearchOutcome("status", <<>>),
      nolink |-> SearchOutcome("nolink", <<>>),
      detail_raise |-> SearchOutcome("detail_raise", <<>>),
      blank |-> SearchOutcome("page", <<>>),
      tag_only |-> SearchOutcome("page", LyricTagOnly),
      plain |-> SearchOutcome("page", LyricPlain),
      long |-> SearchOutcome("page", LyricLong),
      nested |-> SearchOutcome("page", LyricNested) ]

SearchOutcomes == DOMAIN SearchResult

\* a rendered or fetched page.  text is soup.get_text(separator='\n',
\* strip=True) once the tags that carry no content are removed, div the
\* text of the first element whose class matches desc|note-content|text
\* (None: there is none); parses: BeautifulSoup and the extraction do not
\* raise
Page(status, parses, div, text) ==
    [status |-> status, parses |-> parses, div |-> div, text |-> text]

PageSample ==
    [ none |-> Page(0, FALSE, None, <<>>),
      empty |-> Page(200, TRUE, None, <<>>),
      boilerplate |-> Page(200, TRUE, None, <<"x", "\n", "u00A9", " ", "2", "0", "2", "4", " ", "E", "x", "a",
              "m", "p", "l", "e", "\n">>),
      short |-> Page(200, TRUE, <<"n", "o", "t", "e">>, <<"H", "e", "l", "l", "o", " ", "w", "o", "r", "l", "d", "\n",
              "u7248", "u6743", "u6240", "u6709", " ", "X", "\n", " ", "o",
              "k", " ">>),
      long |-> Page(200, TRUE, None, <<"0", "1", "2", "3", "4", "5", "6", "7",
                                       "8", "9", " ", "0", "1", "2", "3", "4",
                                       "5", "6", "7", "8", "9", " ", "0", "1",
                                       "2", "3", "4", "5", "6", "7", "8", "9">>),
      not_found |-> Page(404, TRUE, None, <<"N", "o", "t", " ", "F", "o", "u", "n", "d", "\n", "n", "g",
              "i", "n", "x">>),
      unparsable |-> Page(200, FALSE, None, <<>>) ]

Pages == DOMAIN PageSample \ {"none"}

\* str(e) of what the plain GET or the parser raises
ErrorMessages ==
    { <<>>,
      <<"C", "a", "n", "n", "o", "t", " ", "c", "o", "n", "n", "e", "c", "t",
        " ", "t", "o", " ", "h", "o", "s", "t", " ", "e", "x", "a", "m", "p",
        "l", "e", ".", "c", "o", "m", ":", "4", "4", "3">> }

\* base64 of the JPEG screenshot
Jpeg == <<"/", "9", "j", "/", "4", "A", "A", "Q">>

\* ------------------------------------------------ the music strategies

DirectOutcome(kind, text) == [kind |-> kind, text |-> text]

\* _handle_music_direct_api once final_url is known, up to the fallback: it
\* returns text, falls through to line 189, or raises into line 191
DirectApi(final_url, r) ==
    IF ~TrackIdFound(final_url) THEN DirectOutcome("fallthrough", <<>>)
    ELSE IF r.net = "raise" THEN DirectOutcome("raise", <<>>)
    ELSE CASE Platform(final_url) = "netease" ->
                IF r.status # 200 THEN DirectOutcome("fallthrough", <<>>)
                ELSE IF ~r.json THEN DirectOutcome("raise", <<>>)
                ELSE IF r.lyric # <<>>
                THEN DirectOutcome("return",
                        <<"u3010", "u7F51", "u6613", "u4E91", "u89E3",
                          "u6790", "u3011", "\n", "\n">> \o _filter_lyrics(r.lyric)
                        \o (IF r.tlyric # <<>>
                            THEN <<"\n", "\n", "u3010", "u7FFB", "u8BD1",
                                   "u3011", "\n">> \o _filter_lyrics(r.tlyric)
                            ELSE <<>>))
                ELSE DirectOutcome("fallthrough", <<>>)
           [] Platform(final_url) = "qq" ->
                IF r.json /\ r.lyric # <<>>
                THEN DirectOutcome("return",
                        <<"u3010", "Q", "Q", "u97F3", "u4E50", "u89E3",
                          "u6790", "u3011", "\n", "\n">> \o _filter_lyrics(r.lyric))
                ELSE DirectOutcome("fallthrough", <<>>)
           [] Platform(final_url) = "kuwo" ->
                IF ~r.json THEN DirectOutcome("raise", <<>>)
                ELSE IF r.lrclist # <<>>
                THEN DirectOutcome("return",
                        <<"u3010", "u9177", "u6211", "u97F3", "u4E50",
                          "u89E3", "u6790", "u3011", "\n", "\n">> \o Join(r.lrclist, <<"\n">>))
                ELSE DirectOutcome("fallthrough", <<>>)
           [] OTHER -> DirectOutcome("fallthrough", <<>>)

\* " - NetEase Cloud Music", " - QQ Music", " - Kugou Music", " - Kuwo Music"
PlatformSuffixes ==
    { <<" ", "-", " ", "u7F51", "u6613", "u4E91", "u97F3", "u4E50">>,
      <<" ", "-", " ", "Q", "Q", "u97F3", "u4E50">>,
      <<" ", "-", " ", "u9177", "u72D7", "u97F3", "u4E50">>,
      <<" ", "-", " ", "u9177", "u6211", "u97F3", "u4E50">> }

\* the regex of line 204 (a platform suffix, a | and what follows it, or
\* " - song" and what follows it, at the end) matches the title from index i
TitleTailAt(t, i) ==
    LET rest == SubSeq(t, i, Len(t)) IN
    \/ rest \in PlatformSuffixes
    \/ t[i] = "|" /\ ~Contains(rest, <<"\n">>)
    \/ StartsWith(rest, <<" ", "-", " ", "u6B4C", "u66F2">>) /\ ~Contains(rest, <<"\n">>)

\* lines 201-205: the search keyword of a title
SongName(title_string) ==
    LET title == Strip(title_string)
        hits == {i \in 1..Len(title) : TitleTailAt(title, i)}
        cut == IF hits = {} THEN Len(title) + 1
               ELSE CHOOSE i \in hits : \A j \in hits : i <= j
        song_name == Strip(SubSeq(title, 1, cut - 1))
    IN  IF StartsWith(song_name, <<"u6B4C", "u66F2", "uFF1A">>)
        THEN SubSeq(song_name, 4, Len(song_name))
        ELSE song_name

UnknownSong == <<"u672A", "u77E5", "u6B4C", "u66F2">>

\* _search_xiaojiang: the filtered text of the first result, or None
_search_xiaojiang(song_name, found) ==
    IF found.kind = "page" THEN _filter_lyrics(found.text) ELSE None

\* "music link could not be resolved"
MusicFailure == <<"u97F3", "u4E50", "u94FE", "u63A5", "u89E3", "u6790",
                  "u5931", "u8D25", "u3002">>

NotFoundText(song_name) ==
    <<"u8BC6", "u522B", "u5230", "u6B4C", "u66F2", "u300A">> \o song_name \o <<"u300B", "uFF0C", "u4F46", "u672A", "u80FD",
                                 "u83B7", "u53D6", "u6B4C", "u8BCD", "u6B63",
                                 "u6587", "u3002">>

FoundText(song_name, lyrics) ==
    <<"u3010", "u6B4C", "u8BCD", "u89E3", "u6790", ":", " ">> \o song_name \o <<"u3011", "\n", "u6765", "u6E90", ":", " ",
                                  "u5C0F", "u6C5F", "u97F3", "u4E50", "u7F51",
                                  "\n", "\n">> \o lyrics

\* the keyword _fallback_xiaojiang_search derives; None when the probe fails
FallbackKeyword(probe) ==
    CASE probe.kind = "title" -> SongName(probe.title)
      [] probe.kind = "notitle" -> SongName(UnknownSong)
      [] OTHER -> None

\* a slip: one fixed sentence for every failure
FallbackText_NoKeyword(probe, found) ==
    LET song_name == FallbackKeyword(probe)
        lyrics == _search_xiaojiang(song_name, found)
    IN  IF song_name # None /\ lyrics # None /\ lyrics # <<>>
        THEN FoundText(song_name, lyrics)
        ELSE MusicFailure

\* _fallback_xiaojiang_search: its return value
FallbackText(probe, found) ==
    LET song_name == FallbackKeyword(probe)
        lyrics == _search_xiaojiang(song_name, found)
    IN  IF song_name = None THEN MusicFailure
        ELSE IF lyrics # None /\ lyrics # <<>> THEN FoundText(song_name, lyrics)
        ELSE NotFoundText(song_name)

\* ---------------------------------------------------- the page strategies

\* the except branch of the plain fetch
FetchError(message) == <<"u7F51", "u9875", "u89E3", "u6790", "u51FA", "u9519",
                         ":", " ">> \o message

\* lines 286-290: the text of a rendered page
SocialText(u, page) ==
    IF Contains(u, <<"x", "i", "a", "o", "h", "o", "n", "g", "s", "h", "u",
                     ".", "c", "o", "m">>) /\ page.div # None THEN page.div
    ELSE page.text

\* a slip: the browser outlives the scope, only browser.close() ends it
PlaywrightStop_Leaks(open, b) == open

\* leaving `async with async_playwright()` stops the driver, and with it the
\* browser this call launched
PlaywrightStop(open, b) == open \ {b}

\* link_debug: the reply
DebugText(content_text, shot) ==
    <<"u3010", "u89E3", "u6790", "u6B63", "u6587", "u5185", "u5BB9", "u3011",
      ":", "\n">> \o content_text
    \o (IF shot # None /\ shot # <<>> THEN <<"\n", "\n", "(", "u5DF2", "u6210", "u529F", "u6355", "u83B7",
              "u89C6", "u89C9", "u622A", "u56FE", ")">> ELSE <<>>)

\* prompt_template.format(content=content), the default template
PromptText(content_text) ==
    <<"\n", "u3010", "u4EE5", "u4E0B", "u662F", "u94FE", "u63A5", "u7684",
      "u5177", "u4F53", "u5185", "u5BB9", "uFF0C", "u8BF7", "u53C2", "u8003",
      "u8BE5", "u5185", "u5BB9", "u8FDB", "u884C", "u56DE", "u7B54", "u3011",
      "uFF1A", "\n">> \o content_text \o <<"\n">>

ScreenshotText(b64) ==
    <<"\n", "(", "u9644", "u5E26", "u9875", "u9762", "u622A", "u56FE",
      "u53C2", "u8003", ")", "\n", "u56FE", "u7247", "uFF1A", "d", "a", "t",
      "a", ":", "i", "m", "a", "g", "e", "/", "j", "p", "e", "g", ";", "b",
      "a", "s", "e", "6", "4", ",">> \o b64

\* ------------------------------------------------------------- state

VARIABLES
    HAS_PLAYWRIGHT,     \* the playwright import succeeded
    calls,              \* messages handled so far
    caller,             \* the handler that runs: "llm", "debug" or "none"
    pc,                 \* where the handler is
    url,                \* target_url
    final_url,          \* _handle_music_direct_api: the resolved URL
    fallback_url,       \* the argument of _fallback_xiaojiang_search
    api,                \* the answer of the lyric endpoint ("none": not asked)
    song_name,          \* the keyword of the fallback (None: not derived)
    found,              \* what the search of the fallback met ("none": not run)
    browser,            \* _get_screenshot_and_content: the launched browser, 0: none
    page_content,       \* _get_screenshot_and_content: content
    screenshot_base64,  \* _get_screenshot_and_content: screenshot_base64
    html,               \* _fetch_url_content: html
    screenshot,         \* _fetch_url_content: screenshot
    fetched,            \* what the plain GET met ("none": not sent)
    content,            \* the text _fetch_url_content returned
    image,              \* the image _fetch_url_content returned
    prompt,             \* what on_llm_request appended to req.prompt
    reply,              \* what link_debug answered
    trace,              \* the strategies invoked for this URL, in order
    browsers,           \* the browsers that are open
    launched,           \* browsers launched so far
    category,           \* the category of url, "none" before it is routed
    previous            \* netloc and category of the URL of the call before

vars == <<HAS_PLAYWRIGHT, calls, caller, pc, url, final_url, fallback_url, api,
          song_name, found, browser, page_content, screenshot_base64, html,
          screenshot, fetched, content, image, prompt, reply, trace,
          browsers, launched, category, previous>>

music_vars == <<final_url, fallback_url, api, song_name, found>>
render_vars == <<browser, page_content, screenshot_base64, html, screenshot>>
process_vars == <<HAS_PLAYWRIGHT, calls, caller, url>>
output_vars == <<prompt, reply>>

Init ==
    /\ HAS_PLAYWRIGHT \in BOOLEAN
    /\ calls = 0
    /\ caller = "none"
    /\ pc = "idle"
    /\ url = "none"
    /\ final_url = "none"
    /\ fallback_url = "none"
    /\ api = "none"
    /\ song_name = None
    /\ found = "none"
    /\ browser = 0
    /\ page_content = "none"
    /\ screenshot_base64 = None
    /\ html = "none"
    /\ screenshot = None
    /\ fetched = "none"
    /\ content = None
    /\ image = None
    /\ prompt = <<>>
    /\ reply = <<>>
    /\ trace = <<>>
    /\ browsers = {}
    /\ launched = 0
    /\ category = "none"
    /\ previous = [host |-> <<>>, category |-> "none"]

\* a handler starts with fresh locals and calls _fetch_url_content
StartCall ==
    /\ pc \in {"idle", "done", "raised"}
    /\ calls < MaxCalls
    /\ calls' = calls + 1
    /\ pc' = "fetch"
    /\ final_url' = "none"
    /\ fallback_url' = "none"
    /\ api' = "none"
    /\ song_name' = None
    /\ found' = "none"
    /\ browser' = 0
    /\ page_content' = "none"
    /\ screenshot_base64' = None
    /\ html' = "none"
    /\ screenshot' = None
    /\ fetched' = "none"
    /\ content' = None
    /\ image' = None
    /\ prompt' = <<>>
    /\ reply' = <<>>
    /\ trace' = <<>>
    /\ category' = "none"
    /\ previous' = IF category = "none" THEN previous
                   ELSE [host |-> Netloc(UrlText[url]), category |-> category]
    /\ UNCHANGED <<HAS_PLAYWRIGHT, browsers, launched>>

\* on_llm_request up to its call of _fetch_url_content, for a message that
\* holds a URL, the plugin enabled
OnLlmRequest ==
    /\ caller' = "llm"
    /\ \E target_url \in Urls : url' = target_url
    /\ StartCall

\* link_debug up to its call of _fetch_url_content
LinkDebug ==
    /\ caller' = "debug"
    /\ \E target_url \in DebugUrls : url' = target_url
    /\ StartCall

\* _fetch_url_content: the choice of the strategy
FetchUrlContent ==
    /\ pc = "fetch"
    /\ IF ~_is_music_site(UrlText[url]) /\ UrlparseRaises(UrlText[url])
       THEN /\ pc' = "raised"
            /\ category' = category
       ELSE /\ pc' = Route(UrlText[url], HAS_PLAYWRIGHT)
            /\ category' = Category(UrlText[url])
    /\ UNCHANGED <<process_vars, music_vars, render_vars, fetched, content,
                   image, output_vars, trace, browsers, launched, previous>>

\* _handle_music_direct_api up to its return or its call of the fallback
HandleMusicDirectApi ==
    /\ pc = "music"
    /\ trace' = Append(trace, "direct")
    /\ \E head \in HeadOutcomes, r \in ApiResponses :
        LET is_short == \E d \in short_link_domains : Contains(UrlText[url], d)
            resolved == IF is_short THEN head ELSE url
            asked == resolved # "raise" /\ TrackIdFound(UrlText[resolved])
            out == IF resolved = "raise" THEN DirectOutcome("raise", <<>>)
                   ELSE DirectApi(UrlText[resolved], ApiResponse[r])
        IN  /\ final_url' = IF resolved = "raise" THEN url ELSE resolved
            /\ api' = IF asked THEN r ELSE "none"
            /\ CASE out.kind = "return" ->
                        /\ content' = out.text
                        /\ image' = None
                        /\ pc' = "returned"
                        /\ fallback_url' = fallback_url
                 [] out.kind = "fallthrough" ->
                        /\ fallback_url' = final_url'
                        /\ pc' = "fallback"
                        /\ UNCHANGED <<content, image>>
                 [] out.kind = "raise" ->
                        /\ fallback_url' = url
                        /\ pc' = "fallback"
                        /\ UNCHANGED <<content, image>>
    /\ UNCHANGED <<process_vars, song_name, found, render_vars, fetched,
                   output_vars, browsers, launched, category, previous>>

\* _fallback_xiaojiang_search, _search_xiaojiang included, and the return of
\* _fetch_url_content at line 276
FallbackXiaojiangSearch ==
    /\ pc = "fallback"
    /\ trace' = Append(trace, "fallback")
    /\ \E probe \in TitleOutcomes, f \in SearchOutcomes :
        LET keyword == FallbackKeyword(TitleProbe[probe]) IN
        /\ song_name' = keyword
        /\ found' = IF keyword = None THEN "none" ELSE f
        /\ content' = FallbackText(TitleProbe[probe], SearchResult[f])
    /\ image' = None
    /\ pc' = "returned"
    /\ UNCHANGED <<process_vars, final_url, fallback_url, api, render_vars,
                   fetched, output_vars, browsers, launched, category, previous>>

\* what _get_screenshot_and_content does when a step raises: the scope of
\* async_playwright() is left, the except branch returns (None, None)
RenderAbort ==
    /\ browsers' = PlaywrightStop(browsers, browser)
    /\ browser' = 0
    /\ page_content' = "none"
    /\ screenshot_base64' = None
    /\ html' = "none"
    /\ screenshot' = None
    /\ pc' = "social"

\* async_playwright() and p.chromium.launch
RenderLaunch ==
    /\ pc = "render"
    /\ trace' = Append(trace, "render")
    /\ \E ok \in BOOLEAN :
        IF ~HAS_PLAYWRIGHT
        THEN /\ html' = "none"
             /\ screenshot' = None
             /\ pc' = "social"
             /\ UNCHANGED <<browser, page_content, screenshot_base64, browsers,
                            launched>>
        ELSE IF ok
        THEN /\ launched' = launched + 1
             /\ browser' = launched + 1
             /\ browsers' = browsers \cup {launched + 1}
             /\ pc' = "render_goto"
             /\ UNCHANGED <<page_content, screenshot_base64, html, screenshot>>
        ELSE /\ RenderAbort
             /\ UNCHANGED launched
    /\ UNCHANGED <<process_vars, music_vars, fetched, content, image, output_vars,
                   category, previous>>

\* browser.new_context, context.new_page and page.goto
RenderGoto ==
    /\ pc = "render_goto"
    /\ \E ok \in BOOLEAN :
        IF ok
        THEN /\ pc' = "render_content"
             /\ UNCHANGED <<render_vars, browsers>>
        ELSE RenderAbort
    /\ UNCHANGED <<process_vars, music_vars, fetched, content, image, output_vars,
                   trace, launched, category, previous>>

\* page.content
RenderContent ==
    /\ pc = "render_content"
    /\ \E ok \in BOOLEAN, p \in Pages :
        IF ok
        THEN /\ page_content' = p
             /\ pc' = "render_screenshot"
             /\ UNCHANGED <<browser, screenshot_base64, html, screenshot,
                            browsers>>
        ELSE RenderAbort
    /\ UNCHANGED <<process_vars, music_vars, fetched, content, image, output_vars,
                   trace, launched, category, previous>>

\* page.screenshot and its base64 encoding
RenderScreenshot ==
    /\ pc = "render_screenshot"
    /\ \E ok \in BOOLEAN :
        IF ok
        THEN /\ screenshot_base64' = Jpeg
             /\ pc' = "render_close"
             /\ UNCHANGED <<browser, page_content, html, screenshot, browsers>>
        ELSE RenderAbort
    /\ UNCHANGED <<process_vars, music_vars, fetched, content, image, output_vars,
                   trace, launched, category, previous>>

\* browser.close, the return of line 268 and the end of the scope
RenderClose ==
    /\ pc = "render_close"
    /\ \E ok \in BOOLEAN :
        IF ok
        THEN /\ browsers' = PlaywrightStop(browsers \ {browser}, browser)
             /\ html' = page_content
             /\ screenshot' = screenshot_base64
             /\ browser' = 0
             /\ page_content' = "none"
             /\ screenshot_base64' = None
             /\ pc' = "social"
        ELSE RenderAbort
    /\ UNCHANGED <<process_vars, music_vars, fetched, content, image, output_vars,
                   trace, launched, category, previous>>

\* _fetch_url_content, lines 283-291: the text of the rendered page.  The
\* lines stand in no try block: what BeautifulSoup raises leaves the function
SocialExtract ==
    /\ pc = "social"
    /\ IF html = "none"
       THEN /\ pc' = "plain"
            /\ UNCHANGED <<content, image>>
       ELSE IF ~PageSample[html].parses
       THEN /\ pc' = "raised"
            /\ UNCHANGED <<content, image>>
       ELSE /\ content' = _clean_text(SocialText(UrlText[url], PageSample[html]))
            /\ image' = screenshot
            /\ pc' = "returned"
    /\ UNCHANGED <<process_vars, music_vars, render_vars, fetched, output_vars,
                   trace, browsers, launched, category, previous>>

\* _fetch_url_content, lines 293-302: the plain GET.  What the GET or
\* BeautifulSoup raises is caught and reported
PlainFetch ==
    /\ pc = "plain"
    /\ trace' = Append(trace, "plain")
    /\ \E p \in Pages \cup {"raise"}, message \in ErrorMessages :
        /\ fetched' = p
        /\ content' = IF p # "raise" /\ PageSample[p].parses
                      THEN _clean_text(PageSample[p].text)
                      ELSE FetchError(message)
    /\ image' = None
    /\ pc' = "returned"
    /\ UNCHANGED <<process_vars, music_vars, render_vars, output_vars, browsers,
                   launched, category, previous>>

\* on_llm_request, lines 314-318: the injection
Inject ==
    /\ pc = "returned"
    /\ caller = "llm"
    /\ prompt' = IF content # <<>>
                 THEN prompt \o PromptText(content)
                      \o (IF image # None /\ image # <<>>
                          THEN ScreenshotText(image) ELSE <<>>)
                 ELSE prompt
    /\ pc' = "done"
    /\ UNCHANGED <<process_vars, reply, music_vars, render_vars, fetched,
                   content, image, trace, browsers, launched, category,
                   previous>>

\* link_debug, lines 326-328: the reply
LinkDebugReply ==
    /\ pc = "returned"
    /\ caller = "debug"
    /\ reply' = DebugText(content, image)
    /\ pc' = "done"
    /\ UNCHANGED <<process_vars, prompt, music_vars, render_vars, fetched,
                   content, image, trace, browsers, launched, category,
                   previous>>

Next ==
    \/ OnLlmRequest
    \/ LinkDebug
    \/ FetchUrlContent
    \/ HandleMusicDirectApi
    \/ FallbackXiaojiangSearch
    \/ RenderLaunch
    \/ RenderGoto
    \/ RenderContent
    \/ RenderScreenshot
    \/ RenderClose
    \/ SocialExtract
    \/ PlainFetch
    \/ Inject
    \/ LinkDebugReply

Spec == Init /\ [][Next]_vars

\* ------------------------------------------------------------ claims

Returned == pc = "returned"

InTrace(strategy) == \E k \in 1..Len(trace) : trace[k] = strategy

RenderSteps ==
    {"render_goto", "render_content", "render_screenshot", "render_close"}

\* C1: resolving a URL never lets an exception escape: for every category and
\* every failure of a sub-step the call returns a (text, image) pair.
NoExceptionEscapes == pc # "raised"

\* C2: the text returned by resolving a URL is never the empty string.
ReturnedTextNotEmpty == Returned => content # <<>>

\* C3: the returned text is at most max_content_length plus the length of
\* the truncation marker long, on every path.
ReturnedTextBounded ==
    Returned => Len(content) <= max_length + Len(TruncationMarker)

\* the lyric field the adapter of final_url reads in the answer r; the Kugou
\* endpoint answers a list of candidates, which holds no lyric
LyricField(u, r) ==
    CASE Platform(u) \in {"netease", "qq"} -> r.lyric
      [] Platform(u) = "kuwo" -> r.lrclist
      [] OTHER -> <<>>

\* the direct attempt yields no lyric: no track identifier (a short link that
\* does not resolve has none), an exception, a non-success status, a parse
\* error, or an empty lyric field
DirectYieldsNoLyric ==
    \/ ~TrackIdFound(UrlText[final_url])
    \/ ApiResponse[api].net # "ok"
    \/ ApiResponse[api].status # 200
    \/ ~ApiResponse[api].json
    \/ LyricField(UrlText[final_url], ApiResponse[api]) = <<>>

\* C4: for a Music URL the direct API comes first, the fallback search runs
\* exactly when the direct attempt yields no lyric and never after a direct
\* success, no render is attempted and the image is null.
MusicTiersInOrder ==
    category = "Music" =>
        /\ trace \in {<<>>, <<"direct">>, <<"direct", "fallback">>}
        /\ pc = "fallback" => trace = <<"direct">>
        /\ browser = 0 /\ html = "none"
        /\ pc \in {"returned", "done"} =>
            /\ image = None
            /\ InTrace("direct")
            /\ InTrace("fallback") <=> DirectYieldsNoLyric

\* C4 with the status read where the code reads it, in the NetEase adapter
\* alone: this much of the claim holds.
MusicTiersApartFromStatus ==
    category = "Music" =>
        /\ trace \in {<<>>, <<"direct">>, <<"direct", "fallback">>}
        /\ pc = "fallback" => trace = <<"direct">>
        /\ browser = 0 /\ html = "none"
        /\ pc \in {"returned", "done"} =>
            /\ image = None
            /\ InTrace("direct")
            /\ InTrace("fallback") <=>
                    \/ ~TrackIdFound(UrlText[final_url])
                    \/ ApiResponse[api].net # "ok"
                    \/ /\ Platform(UrlText[final_url]) = "netease"
                       /\ ApiResponse[api].status # 200
                    \/ ~ApiResponse[api].json
                    \/ LyricField(UrlText[final_url], ApiResponse[api]) = <<>>

\* the fallback search found nothing: the title probe failed, or the search
\* gave no text
FallbackFoundNothing ==
    \/ song_name = None
    \/ SearchResult[found].kind # "page"
    \/ _filter_lyrics(SearchResult[found].text) = <<>>

\* C5: the fallback search never raises, and whenever it finds nothing (the
\* title probe fails, the search answers non-200, no result link, no content
\* on the detail page) it returns a non-empty "not found" string that
\* references the keyword derived from the page title.
FallbackNamesKeyword ==
    /\ pc = "raised" => ~InTrace("fallback")
    /\ (Returned /\ InTrace("fallback") /\ FallbackFoundNothing) =>
            /\ content # <<>>
            /\ song_name # None
            /\ Contains(content, song_name)
            /\ Len(content) > Len(song_name)

\* C5, amended: the fallback search never raises and never returns an empty
\* string; when it derived a keyword and the search gave no text, the string
\* holds the keyword; when the title probe failed it is the fixed sentence.
FallbackAlwaysAnswers ==
    /\ pc = "raised" => ~InTrace("fallback")
    /\ (Returned /\ InTrace("fallback")) =>
            /\ content # <<>> /\ content # None
            /\ song_name = None => content = MusicFailure
            /\ (song_name # None /\ FallbackFoundNothing) =>
                    /\ Contains(content, song_name)
                    /\ Len(content) > Len(song_name)

\* C5: the search found no result link for a derived keyword
FallbackNotFoundReached ==
    /\ Returned
    /\ InTrace("fallback")
    /\ song_name # None
    /\ found = "nolink"

\* C6: the image is non-null only if the URL is in the social category and
\* the render returned HTML; a social URL whose render is unavailable or
\* returns no HTML goes to the plain fetch and has no image.
ImageOnlyFromRenderedSocial ==
    /\ image # None =>
            /\ category = "SocialScreenshot"
            /\ HAS_PLAYWRIGHT
            /\ html # "none"
            /\ trace = <<"render">>
    /\ (/\ pc \in {"returned", "done"}
        /\ category = "SocialScreenshot"
        /\ (~HAS_PLAYWRIGHT \/ html = "none")) =>
            /\ image = None
            /\ fetched # "none"
            /\ trace # <<>> /\ trace[Len(trace)] = "plain"

\* C6: a social URL, rendered without HTML, answered by the plain fetch
SocialFellThroughToPlain ==
    /\ Returned
    /\ category = "SocialScreenshot"
    /\ trace = <<"render", "plain">>
    /\ launched > 0
    /\ image = None

\* C7: for a Music URL the returned text holds no raw timestamp tag
\* [mm:ss.xx], whichever adapter or fallback produced it.
MusicTextHasNoTimeTag ==
    (Returned /\ category = "Music") => ~HasTimeTag(content)

\* C8: for a Generic URL whose GET answers a status other than 200 (404),
\* the returned text is a failure description that mentions the status, not
\* the cleaned body of the error page.
NotFoundStatusReported ==
    (/\ Returned
     /\ category = "Generic"
     /\ fetched \in Pages
     /\ PageSample[fetched].status = 404) =>
            /\ Contains(content, <<"4", "0", "4">>)
            /\ content # _clean_text(PageSample[fetched].text)

\* C9: the category is a function of the host alone: two URLs with the same
\* host receive the same category whatever their path, query or fragment.
SameHostSameCategory ==
    (category # "none" /\ previous.host = Netloc(UrlText[url])) =>
        previous.category = category

\* C10: a render call that launched a browser has released it when it
\* returns, on every exit path; during the call the only open browser is the
\* one the call launched, none is left from an earlier call.
BrowserReleasedOnReturn ==
    /\ pc \in RenderSteps =>
            /\ browser = launched
            /\ browsers = {browser}
    /\ pc \notin RenderSteps =>
            /\ browser = 0
            /\ browsers = {}

\* C10: the second render call launched its own browser and ended on a
\* failure path
SecondRenderFailedAfterLaunch ==
    /\ calls = 2
    /\ launched = 2
    /\ pc = "social"
    /\ html = "none"

====
